---- MODULE Spec2Model ----
(***************************************************************************)
(* Model of src/bangladesh_road_map.py: the BangladeshRoadMap analyzer, its *)
(* three pickle cache files, the three cached producers, clear_cache,       *)
(* get_cache_info, run_complete_analysis and main.                          *)
(*                                                                          *)
(* The program is sequential.  When pc = "idle" any public method of the    *)
(* analyzer may be called (one action per method, the whole call), or main  *)
(* may be started; run_complete_analysis is split at its four calls so that *)
(* the position inside the pipeline is visible.  What the outside world     *)
(* decides (what the OSM provider answers, whether a write to disk works,   *)
(* whether os.remove works, the clock) is chosen with \E.                   *)
(***************************************************************************)
EXTENDS Integers, FiniteSets, Sequences, TLC

\* Bounds of the model: how many different road graphs / boundary frames the
\* provider can answer with, how many clock values, how many of the cities.
MaxGraph == 2
MaxGdf == 2
MaxDate == 1
MaxCities == 1

\* ---------------------------------------------------------------- values
\* Every value is a tuple headed by a string, so that any two can be compared.
None == <<"None">>
True == <<"True">>
False == <<"False">>
Raised == <<"raise">>
Absent == <<"absent">>
Corrupt == <<"corrupt">>
ProviderError == <<"ProviderError">>

Graphs == {<<"graph", i>> : i \in 1..MaxGraph}
Gdfs == {<<"gdf", i>> : i \in 1..MaxGdf}
Dates == 1..MaxDate
\* The stats dict: the counts and the connectivity of graph g (a function of
\* g), whether the two centrality averages are present, and analysis_date.
StatsOf(g, centrality, date) == <<"stats", g, centrality, date>>
Stats == {StatsOf(g, c, d) : g \in Graphs, c \in BOOLEAN, d \in Dates}
MapOf(g) == <<"map", g>>

NetworkTypes == {"drive", "walk", "bike", "all"}
DefaultNetworkType == "drive"
major_cities == 1..MaxCities

graph_cache_file == "bangladesh_road_graph.pkl"
districts_cache_file == "bangladesh_districts.pkl"
stats_cache_file == "connectivity_stats.pkl"
CacheFiles == {graph_cache_file, districts_cache_file, stats_cache_file}

\* What the file system does to a write: it works, open(..., 'wb') raises (the
\* file is left as it was), or the file is opened (created or truncated) and
\* pickle.dump raises before the payload is complete.
WriteOutcomes == {"ok", "open_fails", "dump_fails"}

VARIABLES
    disk,           \* cache file name -> Absent, Corrupt or the pickled payload
    road_graph,     \* self.road_graph
    districts_gdf,  \* self.districts_gdf
    pc,             \* "idle" (no call in progress), "main", a position in
                    \* run_complete_analysis, or "returned" (the outermost
                    \* call has just returned to its caller)
    args,           \* main's parsed arguments, from parse_args until main has
                    \* made its last use of them (NoArgs otherwise)
    frame,          \* run_complete_analysis's parameters (NoFrame outside it)
    ran,            \* the calls the current (or last) run of main or of
                    \* run_complete_analysis has made, with their outcomes
    call            \* what the last call did (observation; NoCall("-") when idle)

vars == <<disk, road_graph, districts_gdf, pc, args, frame, ran, call>>

NoArgs ==
    [clear_cache |-> FALSE, cache_info |-> FALSE, force_download |-> FALSE,
     force_analysis |-> FALSE, network_type |-> "-"]
NoFrame == <<"NoFrame">>

\* The analyzer and its cache files, as one value the methods below transform.
\* (The HTML map is written and never read back: what create_interactive_map
\* wrote is observed in call.ret.)
Self == [disk |-> disk, road_graph |-> road_graph, districts_gdf |-> districts_gdf]

\* The observation record of a call that did nothing yet.
NoCall(op) ==
    [op |-> op, force |-> FALSE, network_type |-> "-", loads |-> 0,
     provider |-> 0, provided |-> None, saves |-> 0, save_ok |-> FALSE,
     removes |-> {}, geocode_failed |-> {}, reported |-> None, ret |-> None]

\* with open(file, 'wb') as f: pickle.dump(payload, f)
PickleDump(content, payload, w) ==
    CASE w = "ok" -> payload
      [] w = "open_fails" -> content
      [] w = "dump_fails" -> Corrupt

Exists(content) == content # Absent
\* pickle.load succeeds on the content
Decodes(content) == content # Absent /\ content # Corrupt

\* ------------------------------------------------------------ cache store
\* Each method takes the analyzer s (see Self) and what the outside world
\* decides, and gives [s |-> the analyzer afterwards, call |-> what it did].

load_cached_graph(s) ==
    LET file == s.disk[graph_cache_file]
        seen == [NoCall("load_cached_graph") EXCEPT !.loads = 1]
    IN  IF ~Exists(file) THEN [s |-> s, call |-> [seen EXCEPT !.ret = False]]
        ELSE IF ~Decodes(file)
             \* pickle.load raises: road_graph is not assigned
             THEN [s |-> s, call |-> [seen EXCEPT !.ret = False]]
        ELSE IF file \in Graphs
             THEN [s |-> [s EXCEPT !.road_graph = file],
                   call |-> [seen EXCEPT !.ret = True]]
             \* road_graph is assigned, then len(self.road_graph.nodes) raises
        ELSE [s |-> [s EXCEPT !.road_graph = file],
              call |-> [seen EXCEPT !.ret = False]]

save_graph_to_cache(s, w) ==
    [s |-> [s EXCEPT !.disk[graph_cache_file] = PickleDump(@, s.road_graph, w)],
     call |-> [NoCall("save_graph_to_cache") EXCEPT
                  !.saves = 1, !.save_ok = (w = "ok")]]

load_cached_districts(s) ==
    LET file == s.disk[districts_cache_file]
        seen == [NoCall("load_cached_districts") EXCEPT !.loads = 1]
    IN  IF Exists(file) /\ Decodes(file)
        THEN [s |-> [s EXCEPT !.districts_gdf = file],
              call |-> [seen EXCEPT !.ret = True]]
        ELSE [s |-> s, call |-> [seen EXCEPT !.ret = False]]

save_districts_to_cache(s, w) ==
    [s |-> [s EXCEPT !.disk[districts_cache_file] =
                         PickleDump(@, s.districts_gdf, w)],
     call |-> [NoCall("save_districts_to_cache") EXCEPT
                  !.saves = 1, !.save_ok = (w = "ok")]]

\* Mutant: the loaded stats are never handed back.
load_cached_stats_miss(s) ==
    [s |-> s, call |-> [NoCall("load_cached_stats") EXCEPT !.loads = 1]]

load_cached_stats(s) ==
    LET file == s.disk[stats_cache_file]
        seen == [NoCall("load_cached_stats") EXCEPT !.loads = 1]
    IN  IF Exists(file) /\ Decodes(file)
        THEN [s |-> s, call |-> [seen EXCEPT !.ret = file]]
        ELSE [s |-> s, call |-> [seen EXCEPT !.ret = None]]

save_stats_to_cache(s, stats, w) ==
    [s |-> [s EXCEPT !.disk[stats_cache_file] = PickleDump(@, stats, w)],
     call |-> [NoCall("save_stats_to_cache") EXCEPT
                  !.saves = 1, !.save_ok = (w = "ok")]]

\* -------------------------------------------------------------- producers
\* Mutant: without force, an existing cache file decides the call alone (no
\* fall through to the download when it cannot be loaded).
download_road_network_no_fallthrough(s, network_type, force_download, answer, w) ==
    LET ld == IF force_download THEN [s |-> s, call |-> NoCall("-")]
              ELSE load_cached_graph(s)
        seen == [NoCall("download_road_network") EXCEPT
                    !.force = force_download, !.loads = ld.call.loads]
    IN  IF ~force_download /\ Exists(s.disk[graph_cache_file])
        THEN [s |-> ld.s, call |-> [seen EXCEPT !.ret = ld.call.ret]]
        ELSE IF answer = ProviderError
        THEN [s |-> ld.s,
              call |-> [seen EXCEPT !.network_type = network_type,
                                    !.provider = 1, !.ret = False]]
        ELSE LET got == [ld.s EXCEPT !.road_graph = answer]
                 sv == save_graph_to_cache(got, w)
             IN  [s |-> sv.s,
                  call |-> [seen EXCEPT !.network_type = network_type,
                                        !.provider = 1, !.provided = answer,
                                        !.saves = sv.call.saves,
                                        !.save_ok = sv.call.save_ok,
                                        !.ret = True]]

\* Mutant: the graph is saved whether or not the download worked.
download_road_network_saves_anyway(s, network_type, force_download, answer, w) ==
    LET ld == IF force_download THEN [s |-> s, call |-> NoCall("-")]
              ELSE load_cached_graph(s)
        seen == [NoCall("download_road_network") EXCEPT
                    !.force = force_download, !.loads = ld.call.loads]
    IN  IF ~force_download /\ ld.call.ret = True
        THEN [s |-> ld.s, call |-> [seen EXCEPT !.ret = True]]
        ELSE LET got == IF answer = ProviderError THEN ld.s
                        ELSE [ld.s EXCEPT !.road_graph = answer]
                 sv == save_graph_to_cache(got, w)
             IN  [s |-> sv.s,
                  call |-> [seen EXCEPT
                      !.network_type = network_type, !.provider = 1,
                      !.provided = IF answer = ProviderError THEN None ELSE answer,
                      !.saves = sv.call.saves, !.save_ok = sv.call.save_ok,
                      !.ret = IF answer = ProviderError THEN False ELSE True]]

\* answer: what ox.graph_from_place gives (a graph, or it raises).
download_road_network(s, network_type, force_download, answer, w) ==
    LET ld == IF force_download THEN [s |-> s, call |-> NoCall("-")]
              ELSE load_cached_graph(s)
        seen == [NoCall("download_road_network") EXCEPT
                    !.force = force_download, !.loads = ld.call.loads]
    IN  IF ~force_download /\ ld.call.ret = True
        THEN [s |-> ld.s, call |-> [seen EXCEPT !.ret = True]]
        ELSE IF answer = ProviderError
        THEN [s |-> ld.s,
              call |-> [seen EXCEPT !.network_type = network_type,
                                    !.provider = 1, !.ret = False]]
        ELSE LET got == [ld.s EXCEPT !.road_graph = answer]
                 sv == save_graph_to_cache(got, w)
             IN  [s |-> sv.s,
                  call |-> [seen EXCEPT !.network_type = network_type,
                                        !.provider = 1, !.provided = answer,
                                        !.saves = sv.call.saves,
                                        !.save_ok = sv.call.save_ok,
                                        !.ret = True]]

\* Mutant: the cache is consulted whatever the force flag.
download_districts_ignores_force(s, force_download, answer, w) ==
    LET ld == load_cached_districts(s)
        seen == [NoCall("download_districts") EXCEPT
                    !.force = force_download, !.loads = ld.call.loads]
    IN  IF ld.call.ret = True
        THEN [s |-> ld.s, call |-> [seen EXCEPT !.ret = True]]
        ELSE IF answer = ProviderError
        THEN [s |-> ld.s, call |-> [seen EXCEPT !.provider = 1, !.ret = False]]
        ELSE LET got == [ld.s EXCEPT !.districts_gdf = answer]
                 sv == save_districts_to_cache(got, w)
             IN  [s |-> sv.s,
                  call |-> [seen EXCEPT !.provider = 1, !.provided = answer,
                                        !.saves = sv.call.saves,
                                        !.save_ok = sv.call.save_ok,
                                        !.ret = True]]

\* answer: what ox.geocode_to_gdf gives (a frame, or it raises).
download_districts(s, force_download, answer, w) ==
    LET ld == IF force_download THEN [s |-> s, call |-> NoCall("-")]
              ELSE load_cached_districts(s)
        seen == [NoCall("download_districts") EXCEPT
                    !.force = force_download, !.loads = ld.call.loads]
    IN  IF ~force_download /\ ld.call.ret = True
        THEN [s |-> ld.s, call |-> [seen EXCEPT !.ret = True]]
        ELSE IF answer = ProviderError
        THEN [s |-> ld.s, call |-> [seen EXCEPT !.provider = 1, !.ret = False]]
        ELSE LET got == [ld.s EXCEPT !.districts_gdf = answer]
                 sv == save_districts_to_cache(got, w)
             IN  [s |-> sv.s,
                  call |-> [seen EXCEPT !.provider = 1, !.provided = answer,
                                        !.saves = sv.call.saves,
                                        !.save_ok = sv.call.save_ok,
                                        !.ret = True]]

\* Mutant: a failed save of the stats loses the result of the call.
analyze_connectivity_save_fatal(s, force_analysis, centrality, date, w) ==
    LET seen == [NoCall("analyze_connectivity") EXCEPT !.force = force_analysis]
    IN  IF s.road_graph = None THEN [s |-> s, call |-> seen]
        ELSE
        LET ld == IF force_analysis THEN [s |-> s, call |-> NoCall("-")]
                  ELSE load_cached_stats(s)
            read == [seen EXCEPT !.loads = ld.call.loads]
        IN  IF ~force_analysis /\ ld.call.ret # None
            THEN [s |-> s, call |-> [read EXCEPT !.ret = ld.call.ret]]
            ELSE LET stats == StatsOf(s.road_graph, centrality, date)
                     sv == save_stats_to_cache(s, stats, w)
                 IN  [s |-> sv.s,
                      call |-> [read EXCEPT !.provider = 1, !.provided = stats,
                                            !.saves = sv.call.saves,
                                            !.save_ok = sv.call.save_ok,
                                            !.ret = IF sv.call.save_ok THEN stats
                                                    ELSE None]]

\* centrality: whether the centrality block runs without raising;
\* date: datetime.now().
analyze_connectivity(s, force_analysis, centrality, date, w) ==
    LET seen == [NoCall("analyze_connectivity") EXCEPT !.force = force_analysis]
    IN  IF s.road_graph = None THEN [s |-> s, call |-> seen]
        ELSE
        LET ld == IF force_analysis THEN [s |-> s, call |-> NoCall("-")]
                  ELSE load_cached_stats(s)
            read == [seen EXCEPT !.loads = ld.call.loads]
        IN  IF ~force_analysis /\ ld.call.ret # None
            THEN [s |-> s, call |-> [read EXCEPT !.ret = ld.call.ret]]
            ELSE LET stats == StatsOf(s.road_graph, centrality, date)
                     sv == save_stats_to_cache(s, stats, w)
                 IN  [s |-> sv.s,
                      call |-> [read EXCEPT !.provider = 1, !.provided = stats,
                                            !.saves = sv.call.saves,
                                            !.save_ok = sv.call.save_ok,
                                            !.ret = stats]]

\* ------------------------------------------------------ report, map, cache
generate_report(s, force_analysis, centrality, date, w) ==
    LET r == analyze_connectivity(s, force_analysis, centrality, date, w)
    IN  [s |-> r.s,
         call |-> [r.call EXCEPT !.op = "generate_report",
                                 !.reported = r.call.ret, !.ret = None]]

\* failed: the cities ox.geocode raises for; w: what m.save(save_path) does.
create_interactive_map(s, failed, w) ==
    LET seen == NoCall("create_interactive_map")
    IN  IF s.road_graph = None THEN [s |-> s, call |-> seen]
        ELSE [s |-> s,
              call |-> [seen EXCEPT !.geocode_failed = failed,
                                    !.ret = IF w = "ok" THEN MapOf(s.road_graph)
                                            ELSE Raised]]

\* Mutant: the stats file is left out of the list of files to remove.
clear_cache_skips_stats(s, stuck) ==
    [s |-> [s EXCEPT !.disk = [f \in CacheFiles |->
                IF Exists(s.disk[f]) /\ f \notin stuck /\ f # stats_cache_file
                THEN Absent ELSE s.disk[f]]],
     call |-> [NoCall("clear_cache") EXCEPT
                  !.removes = {f \in CacheFiles \ {stats_cache_file} :
                                  Exists(s.disk[f])}]]

\* stuck: the files os.remove raises for.
clear_cache(s, stuck) ==
    [s |-> [s EXCEPT !.disk = [f \in CacheFiles |->
                IF Exists(s.disk[f]) /\ f \notin stuck THEN Absent
                ELSE s.disk[f]]],
     call |-> [NoCall("clear_cache") EXCEPT
                  !.removes = {f \in CacheFiles : Exists(s.disk[f])}]]

get_cache_info(s) == [s |-> s, call |-> NoCall("get_cache_info")]

\* ------------------------------------------------- pipeline and entry point
\* Mutant: --cache-info is not handled as a special command.
main_dispatch_info_falls_through(a) ==
    IF a.clear_cache THEN "clear_cache" ELSE "run_complete_analysis"

\* main's dispatch on the parsed arguments: which of its three branches runs.
main_dispatch(a) ==
    IF a.clear_cache THEN "clear_cache"
    ELSE IF a.cache_info THEN "get_cache_info"
    ELSE "run_complete_analysis"

\* The network type run_complete_analysis downloads with: it calls
\* download_road_network(force_download=...) and so gets the default.
rca_network_type(a) == DefaultNetworkType

\* Mutant: a failed district fetch ends the run like a failed download.
rca_next_districts_abort(at, ret) ==
    CASE at = "rca_network" -> IF ret = True THEN "rca_districts" ELSE "returned"
      [] at = "rca_districts" -> IF ret = True THEN "rca_report" ELSE "returned"
      [] at = "rca_report" -> "rca_map"
      [] at = "rca_map" -> "returned"

\* Where run_complete_analysis goes after the call made at position `at`
\* has returned ret.
rca_next(at, ret) ==
    CASE at = "rca_network" -> IF ret = True THEN "rca_districts" ELSE "returned"
      [] at = "rca_districts" -> "rca_report"
      [] at = "rca_report" -> "rca_map"
      [] at = "rca_map" -> "returned"

\* ----------------------------------------------------------------- actions
Init ==
    /\ disk = [f \in CacheFiles |-> Absent]
    /\ road_graph = None
    /\ districts_gdf = None
    /\ pc = "idle"
    /\ args = NoArgs
    /\ frame = NoFrame
    /\ ran = <<>>
    /\ call = NoCall("-")

Apply(r) ==
    /\ disk' = r.s.disk
    /\ road_graph' = r.s.road_graph
    /\ districts_gdf' = r.s.districts_gdf
    /\ call' = r.call

\* A method called on the analyzer from outside the pipeline.
Api(r) ==
    /\ pc = "idle"
    /\ Apply(r)
    /\ pc' = "returned"
    /\ args' = NoArgs
    /\ frame' = NoFrame
    /\ ran' = <<>>

Answers(S) == S \cup {ProviderError}

LoadCachedGraph == Api(load_cached_graph(Self))
SaveGraphToCache == \E w \in WriteOutcomes : Api(save_graph_to_cache(Self, w))
LoadCachedDistricts == Api(load_cached_districts(Self))
SaveDistrictsToCache ==
    \E w \in WriteOutcomes : Api(save_districts_to_cache(Self, w))
LoadCachedStats == Api(load_cached_stats(Self))
SaveStatsToCache ==
    \E st \in Stats, w \in WriteOutcomes : Api(save_stats_to_cache(Self, st, w))
DownloadRoadNetwork ==
    \E nt \in NetworkTypes, fd \in BOOLEAN, answer \in Answers(Graphs),
       w \in WriteOutcomes :
        Api(download_road_network(Self, nt, fd, answer, w))
DownloadDistricts ==
    \E fd \in BOOLEAN, answer \in Answers(Gdfs), w \in WriteOutcomes :
        Api(download_districts(Self, fd, answer, w))
AnalyzeConnectivity ==
    \E fa \in BOOLEAN, c \in BOOLEAN, d \in Dates, w \in WriteOutcomes :
        Api(analyze_connectivity(Self, fa, c, d, w))
GenerateReport ==
    \E fa \in BOOLEAN, c \in BOOLEAN, d \in Dates, w \in WriteOutcomes :
        Api(generate_report(Self, fa, c, d, w))
CreateInteractiveMap ==
    \E failed \in SUBSET major_cities, w \in WriteOutcomes :
        Api(create_interactive_map(Self, failed, w))
ClearCache == \E stuck \in SUBSET CacheFiles : Api(clear_cache(Self, stuck))
GetCacheInfo == Api(get_cache_info(Self))

\* run_complete_analysis up to its first producer call.
rca_enter(fd, fa) ==
    /\ Apply(get_cache_info(Self))
    /\ frame' = [force_download |-> fd, force_analysis |-> fa]
    /\ ran' = <<>>
    /\ pc' = "rca_network"

RunCompleteAnalysis ==
    /\ pc = "idle"
    /\ args' = NoArgs
    /\ \E fd \in BOOLEAN, fa \in BOOLEAN : rca_enter(fd, fa)

\* One call of run_complete_analysis, r, made at position pc.
rca_step(r, outcome) ==
    /\ Apply(r)
    /\ ran' = Append(ran, <<r.call.op, outcome>>)
    /\ pc' = rca_next(pc, r.call.ret)
    /\ frame' = IF pc' = "returned" THEN NoFrame ELSE frame
    /\ args' = NoArgs

RcaNetwork ==
    /\ pc = "rca_network"
    /\ \E answer \in Answers(Graphs), w \in WriteOutcomes :
        LET r == download_road_network(Self, rca_network_type(args),
                                       frame.force_download, answer, w)
        IN  rca_step(r, r.call.ret)

RcaDistricts ==
    /\ pc = "rca_districts"
    /\ \E answer \in Answers(Gdfs), w \in WriteOutcomes :
        LET r == download_districts(Self, frame.force_download, answer, w)
        IN  rca_step(r, r.call.ret)

RcaReport ==
    /\ pc = "rca_report"
    /\ \E c \in BOOLEAN, d \in Dates, w \in WriteOutcomes :
        LET r == generate_report(Self, frame.force_analysis, c, d, w)
        IN  rca_step(r, r.call.reported)

RcaMap ==
    /\ pc = "rca_map"
    /\ \E failed \in SUBSET major_cities, w \in WriteOutcomes :
        LET r == create_interactive_map(Self, failed, w)
        IN  rca_step(r, r.call.ret)

\* main: parse the command line and construct the analyzer.
Main ==
    /\ pc = "idle"
    /\ \E cc \in BOOLEAN, ci \in BOOLEAN, fd \in BOOLEAN, fa \in BOOLEAN,
          nt \in NetworkTypes :
        args' = [clear_cache |-> cc, cache_info |-> ci, force_download |-> fd,
                 force_analysis |-> fa, network_type |-> nt]
    /\ road_graph' = None
    /\ districts_gdf' = None
    /\ call' = NoCall("main")
    /\ pc' = "main"
    /\ frame' = NoFrame
    /\ ran' = <<>>
    /\ UNCHANGED disk

\* main: the special commands, or the pipeline.
MainDispatch ==
    /\ pc = "main"
    /\ CASE main_dispatch(args) = "clear_cache" ->
              /\ \E stuck \in SUBSET CacheFiles : Apply(clear_cache(Self, stuck))
              /\ pc' = "returned"
              /\ ran' = <<<<"clear_cache", None>>>>
              /\ args' = NoArgs
              /\ UNCHANGED frame
         [] main_dispatch(args) = "get_cache_info" ->
              /\ Apply(get_cache_info(Self))
              /\ pc' = "returned"
              /\ ran' = <<<<"get_cache_info", None>>>>
              /\ args' = NoArgs
              /\ UNCHANGED frame
         [] main_dispatch(args) = "run_complete_analysis" ->
              \* args.network_type is still to be used (or not) by the download
              /\ rca_enter(args.force_download, args.force_analysis)
              /\ UNCHANGED args

\* The caller has seen the result; the analyzer and its files stay as they
\* are for the next call.
Return ==
    /\ pc = "returned"
    /\ pc' = "idle"
    /\ call' = NoCall("-")
    /\ ran' = <<>>
    /\ UNCHANGED <<disk, road_graph, districts_gdf, args, frame>>

Next ==
    \/ Main
    \/ MainDispatch
    \/ RunCompleteAnalysis
    \/ RcaNetwork
    \/ RcaDistricts
    \/ RcaReport
    \/ RcaMap
    \/ DownloadRoadNetwork
    \/ DownloadDistricts
    \/ AnalyzeConnectivity
    \/ GenerateReport
    \/ CreateInteractiveMap
    \/ ClearCache
    \/ GetCacheInfo
    \/ LoadCachedGraph
    \/ SaveGraphToCache
    \/ LoadCachedDistricts
    \/ SaveDistrictsToCache
    \/ LoadCachedStats
    \/ SaveStatsToCache
    \/ Return

Spec == Init /\ [][Next]_vars

\* ------------------------------------------------------------------ claims
\* The three producers, the cache file of each, and what each hands back:
\* the downloads set the in-memory artifact and return True or False,
\* analyze_connectivity returns the stats (generate_report passes its
\* force flag on to analyze_connectivity and reports what that returns).
IsNetworkCall(c) == c.op = "download_road_network"
IsDistrictsCall(c) == c.op = "download_districts"
IsStatsCall(c) == c.op \in {"analyze_connectivity", "generate_report"}
StatsReturned(c) == IF c.op = "generate_report" THEN c.reported ELSE c.ret
ProviderSucceeded(c) == c.provider = 1 /\ c.provided # None
ProviderFailed(c) == c.provider = 1 /\ c.provided = None

\* C1 as stated: with the force flag false and a cache file that exists and
\* decodes, a producer call returns the cached payload, invokes no provider
\* and leaves the cache files as they are.
C1_AsStated ==
    [][ /\ (IsNetworkCall(call') /\ ~call'.force
              /\ Decodes(disk[graph_cache_file]))
           => /\ call'.provider = 0 /\ disk' = disk
              /\ call'.ret = True /\ road_graph' = disk[graph_cache_file]
        /\ (IsDistrictsCall(call') /\ ~call'.force
              /\ Decodes(disk[districts_cache_file]))
           => /\ call'.provider = 0 /\ disk' = disk
              /\ call'.ret = True /\ districts_gdf' = disk[districts_cache_file]
        /\ (IsStatsCall(call') /\ ~call'.force
              /\ Decodes(disk[stats_cache_file]))
           => /\ call'.provider = 0 /\ disk' = disk
              /\ StatsReturned(call') = disk[stats_cache_file]
      ]_vars

\* C1 (amended): the same, for download_road_network provided the decoded
\* payload is a road graph, and for analyze_connectivity provided a road graph
\* is in memory.  The cache files and what the call depends on are left as
\* they were, so a second such call returns the same payload.
C1_CacheHit ==
    [][ /\ (IsNetworkCall(call') /\ ~call'.force
              /\ disk[graph_cache_file] \in Graphs)
           => /\ call'.provider = 0 /\ call'.saves = 0 /\ disk' = disk
              /\ call'.ret = True /\ road_graph' = disk[graph_cache_file]
        /\ (IsDistrictsCall(call') /\ ~call'.force
              /\ Decodes(disk[districts_cache_file]))
           => /\ call'.provider = 0 /\ call'.saves = 0 /\ disk' = disk
              /\ call'.ret = True /\ districts_gdf' = disk[districts_cache_file]
        /\ (IsStatsCall(call') /\ ~call'.force /\ road_graph # None
              /\ Decodes(disk[stats_cache_file]))
           => /\ call'.provider = 0 /\ call'.saves = 0 /\ disk' = disk
              /\ StatsReturned(call') = disk[stats_cache_file]
              /\ road_graph' = road_graph
      ]_vars

\* A cache hit of analyze_connectivity: the stats file was read, nothing was
\* computed, and the stats returned are the file's.
C1_Witness ==
    /\ call.op = "analyze_connectivity" /\ ~call.force
    /\ call.loads = 1 /\ call.provider = 0
    /\ call.ret \in Stats /\ call.ret = disk[stats_cache_file]

\* C2 as stated: with the force flag true the cache is not read and the
\* provider is invoked; when the provider succeeds the fresh artifact is the
\* in-memory artifact and the content of the cache file.
C2_AsStated ==
    [][ /\ (IsNetworkCall(call') /\ call'.force)
           => /\ call'.loads = 0 /\ call'.provider = 1
              /\ ProviderSucceeded(call')
                 => /\ road_graph' = call'.provided
                    /\ disk'[graph_cache_file] = call'.provided
        /\ (IsDistrictsCall(call') /\ call'.force)
           => /\ call'.loads = 0 /\ call'.provider = 1
              /\ ProviderSucceeded(call')
                 => /\ districts_gdf' = call'.provided
                    /\ disk'[districts_cache_file] = call'.provided
        /\ (IsStatsCall(call') /\ call'.force)
           => /\ call'.loads = 0 /\ call'.provider = 1
              /\ ProviderSucceeded(call')
                 => /\ StatsReturned(call') = call'.provided
                    /\ disk'[stats_cache_file] = call'.provided
      ]_vars

\* C2 (amended): with the force flag true the cache is never read; the
\* provider is invoked whatever the cache state (by analyze_connectivity only
\* when a road graph is in memory: without one it returns None at once).  On
\* provider success the fresh artifact is the in-memory artifact (the stats
\* are returned), one save is attempted, and the cache file holds the fresh
\* artifact when that save succeeds; no other cache file changes.
C2_Forced ==
    [][ /\ (IsNetworkCall(call') /\ call'.force)
           => /\ call'.loads = 0 /\ call'.provider = 1
              /\ ProviderSucceeded(call')
                 => /\ road_graph' = call'.provided /\ call'.saves = 1
                    /\ call'.save_ok
                       => disk' = [disk EXCEPT ![graph_cache_file] = call'.provided]
        /\ (IsDistrictsCall(call') /\ call'.force)
           => /\ call'.loads = 0 /\ call'.provider = 1
              /\ ProviderSucceeded(call')
                 => /\ districts_gdf' = call'.provided /\ call'.saves = 1
                    /\ call'.save_ok
                       => disk' = [disk EXCEPT ![districts_cache_file] = call'.provided]
        /\ (IsStatsCall(call') /\ call'.force)
           => /\ call'.loads = 0
              /\ road_graph = None => (call'.provider = 0 /\ StatsReturned(call') = None)
              /\ road_graph # None
                 => /\ ProviderSucceeded(call')
                    /\ StatsReturned(call') = call'.provided /\ call'.saves = 1
                    /\ call'.provided \in Stats /\ call'.provided[2] = road_graph
                    /\ call'.save_ok
                       => disk' = [disk EXCEPT ![stats_cache_file] = call'.provided]
      ]_vars

\* A forced download_districts whose provider and save both succeeded.
C2_Witness ==
    /\ call.op = "download_districts" /\ call.force
    /\ call.provider = 1 /\ call.save_ok
    /\ districts_gdf = call.provided /\ disk[districts_cache_file] = call.provided

\* C3: a producer called with the force flag false on a cache file that
\* exists and cannot be decoded reads it, gets a miss, and invokes the
\* provider once; the call returns normally, True or the stats when the
\* provider succeeds and False when it fails, as with an absent file.
C3_UndecodableIsMiss ==
    [][ /\ (IsNetworkCall(call') /\ ~call'.force
              /\ disk[graph_cache_file] = Corrupt)
           => /\ call'.loads = 1 /\ call'.provider = 1
              /\ call'.ret = (IF ProviderSucceeded(call') THEN True ELSE False)
              /\ ProviderSucceeded(call') => road_graph' = call'.provided
              /\ ProviderFailed(call') => (road_graph' = road_graph /\ disk' = disk)
        /\ (IsDistrictsCall(call') /\ ~call'.force
              /\ disk[districts_cache_file] = Corrupt)
           => /\ call'.loads = 1 /\ call'.provider = 1
              /\ call'.ret = (IF ProviderSucceeded(call') THEN True ELSE False)
              /\ ProviderSucceeded(call') => districts_gdf' = call'.provided
              /\ ProviderFailed(call') => (districts_gdf' = districts_gdf /\ disk' = disk)
        /\ (IsStatsCall(call') /\ ~call'.force /\ road_graph # None
              /\ disk[stats_cache_file] = Corrupt)
           => /\ call'.loads = 1 /\ ProviderSucceeded(call')
              /\ StatsReturned(call') = call'.provided
              /\ call'.provided \in Stats /\ call'.provided[2] = road_graph
      ]_vars

\* download_road_network found an undecodable graph file, went on to the
\* provider, and the provider failed: the file is still the undecodable one.
C3_Witness ==
    /\ call.op = "download_road_network" /\ ~call.force
    /\ call.loads = 1 /\ call.provider = 1 /\ call.ret = False
    /\ disk[graph_cache_file] = Corrupt

\* C4: when the provider succeeded and the save to the cache failed, the
\* producer returns success (True, or the stats it computed), the fresh
\* artifact is the one in memory, and the later steps of the pipeline leave
\* the road graph in memory as it is.
SaveFailed(c) == ProviderSucceeded(c) /\ c.saves = 1 /\ ~c.save_ok

C4_SaveFailureNotFatal ==
    [][ /\ (IsNetworkCall(call') /\ SaveFailed(call'))
           => (call'.ret = True /\ road_graph' = call'.provided)
        /\ (IsDistrictsCall(call') /\ SaveFailed(call'))
           => (call'.ret = True /\ districts_gdf' = call'.provided)
        /\ (IsStatsCall(call') /\ SaveFailed(call'))
           => (StatsReturned(call') = call'.provided /\ call'.provided \in Stats)
        /\ pc \in {"rca_districts", "rca_report", "rca_map"}
           => road_graph' = road_graph
      ]_vars

\* In the pipeline the download succeeded, its save failed part-way, and the
\* run went on with the downloaded graph.
C4_Witness ==
    /\ pc = "rca_districts"
    /\ call.op = "download_road_network" /\ SaveFailed(call)
    /\ call.ret = True /\ road_graph = call.provided
    /\ disk[graph_cache_file] # road_graph

\* C5: when the external provider of download_road_network or of
\* download_districts fails, the call returns False after that one provider
\* invocation, calls no save, and leaves every cache file as it was.
C5_ProviderFailure ==
    [][ (IsNetworkCall(call') \/ IsDistrictsCall(call'))
        => /\ call'.provider \in {0, 1}
           /\ ProviderFailed(call')
              => (call'.ret = False /\ call'.saves = 0 /\ disk' = disk)
      ]_vars

\* download_districts failed over a populated districts cache (forced, so the
\* cache was not used), and the cache file still holds its frame.
C5_Witness ==
    /\ call.op = "download_districts" /\ call.force
    /\ ProviderFailed(call) /\ call.ret = False
    /\ disk[districts_cache_file] \in Gdfs

\* C6: a run of run_complete_analysis that ends has either made the one call
\* download_road_network, which failed, or has made all four calls in order
\* with the download successful, whatever the other three returned; and at
\* every position after the download, the download was successful.
RanOps == [i \in 1..Len(ran) |-> ran[i][1]]
IsPipelineRun == ran # <<>> /\ ran[1][1] = "download_road_network"
FullPipeline ==
    <<"download_road_network", "download_districts", "generate_report",
      "create_interactive_map">>

C6_OnlyNetworkFailureAborts ==
    IsPipelineRun =>
        IF ran[1][2] # True
        THEN Len(ran) = 1 /\ pc = "returned"
        ELSE /\ pc = "returned" => RanOps = FullPipeline
             /\ pc = "rca_districts" => Len(ran) = 1
             /\ pc = "rca_report" => Len(ran) = 2
             /\ pc = "rca_map" => Len(ran) = 3

\* A finished run in which the district fetch failed, the reported stats lack
\* the centrality averages, and a city could not be geocoded: the report and
\* the map step were reached all the same.
C6_Witness ==
    /\ pc = "returned" /\ IsPipelineRun /\ RanOps = FullPipeline
    /\ ran[2][2] = False
    /\ ran[3][2] \in Stats /\ ran[3][2][3] = FALSE
    /\ call.op = "create_interactive_map" /\ call.geocode_failed # {}

\* C7 as stated: a cache file that exists holds a complete payload that a
\* save wrote for that file.
Payloads(f) ==
    CASE f = graph_cache_file -> Graphs \cup {None}
      [] f = districts_cache_file -> Gdfs \cup {None}
      [] f = stats_cache_file -> Stats

C7_AsStated ==
    \A f \in CacheFiles : Exists(disk[f]) => disk[f] \in Payloads(f)

\* C8 as stated: after clear_cache none of the three files exists; os.remove
\* was called for the files that existed and for no other; the road graph and
\* the districts in memory are unchanged.
C8_AsStated ==
    [][ call'.op = "clear_cache"
        => /\ call'.removes = {f \in CacheFiles : Exists(disk[f])}
           /\ \A f \in CacheFiles : disk'[f] = Absent
           /\ road_graph' = road_graph /\ districts_gdf' = districts_gdf
      ]_vars

\* C8 (amended): clear_cache calls os.remove for each of the three files that
\* exists and for no other; each file is afterwards absent or, when its
\* removal failed, exactly as it was (the failure is not raised); an absent
\* file stays absent; the road graph and the districts in memory are unchanged.
C8_ClearCache ==
    [][ call'.op = "clear_cache"
        => /\ call'.removes = {f \in CacheFiles : Exists(disk[f])}
           /\ \A f \in CacheFiles : disk'[f] \in {Absent, disk[f]}
           /\ call'.ret = None
           /\ road_graph' = road_graph /\ districts_gdf' = districts_gdf
      ]_vars

\* clear_cache ran with a graph in memory while the stats file was absent
\* and another file existed, and removed what existed.
C8_Witness ==
    /\ call.op = "clear_cache"
    /\ call.removes # {} /\ stats_cache_file \notin call.removes
    /\ \A f \in CacheFiles : disk[f] = Absent
    /\ road_graph \in Graphs

\* C9: main with --clear-cache does clear_cache and returns; with --cache-info
\* and no --clear-cache it does get_cache_info and returns, leaving the cache
\* files as they are; neither calls a producer or writes a map.  With neither
\* flag main enters run_complete_analysis with its two force flags.
C9_SpecialCommands ==
    [][ pc = "main"
        => /\ args.clear_cache
              => /\ pc' = "returned" /\ call'.op = "clear_cache"
                 /\ ran' = <<<<"clear_cache", None>>>>
           /\ (~args.clear_cache /\ args.cache_info)
              => /\ pc' = "returned" /\ call'.op = "get_cache_info"
                 /\ ran' = <<<<"get_cache_info", None>>>>
                 /\ disk' = disk
           /\ (args.clear_cache \/ args.cache_info)
              => /\ call'.provider = 0 /\ call'.saves = 0 /\ call'.loads = 0
                 /\ road_graph' = None /\ districts_gdf' = None
           /\ (~args.clear_cache /\ ~args.cache_info)
              => /\ pc' = "rca_network"
                 /\ frame' = [force_download |-> args.force_download,
                              force_analysis |-> args.force_analysis]
      ]_vars

\* main ran --cache-info over a populated cache and returned.
C9_Witness ==
    /\ pc = "returned" /\ ran = <<<<"get_cache_info", None>>>>
    /\ call.op = "get_cache_info"
    /\ disk[graph_cache_file] \in Graphs

\* C10 as stated: when the pipeline started by main invokes the road-network
\* provider, it does so with the network type given on the command line.
C10_AsStated ==
    [][ (pc = "rca_network" /\ args.network_type \in NetworkTypes
           /\ call'.provider = 1)
        => call'.network_type = args.network_type
      ]_vars

\* ------------------------------------------------- the connectivity stats
\* The stats of lines 213-220 on road graphs given by their structure: a
\* directed graph on the nodes 1..n (1 <= n <= MaxNodes; ox.graph_from_place
\* gives no graph without nodes) with any set of directed edges between
\* distinct nodes.  Self-loops and parallel edges join no two nodes: they
\* change no component and are left out.
MaxNodes == 3

DirectedEdges(n) == {e \in (1..n) \X (1..n) : e[1] # e[2]}
RoadGraphs ==
    UNION {[nodes : {1..n}, edges : SUBSET DirectedEdges(n)] : n \in 1..MaxNodes}

\* Mutant: the direction of the edges is kept (an edge u -> v is no way back
\* from v to u).
to_directed_adjacency(G) ==
    [v \in G.nodes |-> {u \in G.nodes : <<v, u>> \in G.edges}]

\* G.to_undirected(), as the adjacency the networkx searches walk: u and v
\* are neighbours when G has an edge between them in either direction.
to_undirected(G) ==
    [v \in G.nodes |->
        {u \in G.nodes : <<v, u>> \in G.edges \/ <<u, v>> \in G.edges}]

\* networkx _plain_bfs: the nodes reachable from the frontier.
RECURSIVE plain_bfs(_, _, _)
plain_bfs(adj, seen, frontier) ==
    IF frontier = {} THEN seen
    ELSE LET next == (UNION {adj[v] : v \in frontier}) \ seen
         IN  plain_bfs(adj, seen \cup next, next)

\* nx.is_connected: a search from one arbitrary node reaches len(G) nodes.
is_connected(adj) ==
    LET start == CHOOSE v \in DOMAIN adj : TRUE
    IN  Cardinality(plain_bfs(adj, {start}, {start})) = Cardinality(DOMAIN adj)

\* nx.number_connected_components: one search per node not yet seen.
RECURSIVE count_components(_, _)
count_components(adj, unseen) ==
    IF unseen = {} THEN 0
    ELSE LET v == CHOOSE x \in unseen : TRUE
             c == plain_bfs(adj, {v}, {v})
         IN  1 + count_components(adj, unseen \ c)

number_connected_components(adj) == count_components(adj, DOMAIN adj)

\* The stats dict of analyze_connectivity for road graph G.
connectivity_stats(G, centrality, date) ==
    [total_nodes |-> Cardinality(G.nodes),
     total_edges |-> Cardinality(G.edges),
     is_connected |-> is_connected(to_undirected(G)),
     number_of_components |-> number_connected_components(to_undirected(G)),
     analysis_date |-> date,
     centrality |-> centrality]

\* The analyzer holds any road graph and the caches are empty.
InitStats ==
    /\ road_graph \in RoadGraphs
    /\ disk = [f \in CacheFiles |-> Absent]
    /\ districts_gdf = None
    /\ pc = "idle"
    /\ args = NoArgs
    /\ frame = NoFrame
    /\ ran = <<>>
    /\ call = NoCall("-")

\* analyze_connectivity(force_analysis=True) on that graph: the stats are
\* computed, saved (best effort) and returned.
ForcedAnalysis ==
    /\ pc = "idle"
    /\ \E c \in BOOLEAN, d \in Dates, w \in WriteOutcomes :
        LET stats == connectivity_stats(road_graph, c, d)
        IN  /\ disk' = [disk EXCEPT ![stats_cache_file] = PickleDump(@, stats, w)]
            /\ call' = [NoCall("analyze_connectivity") EXCEPT
                           !.force = TRUE, !.provider = 1, !.provided = stats,
                           !.saves = 1, !.save_ok = (w = "ok"), !.ret = stats]
    /\ pc' = "returned"
    /\ UNCHANGED <<road_graph, districts_gdf, args, frame, ran>>

NextStats == ForcedAnalysis

SpecStats == InitStats /\ [][NextStats]_vars

\* The components of G in its undirected projection, from the definition:
\* the classes of the least equivalence relation that holds every edge.
Linked(G, R) ==
    R \cup {<<a, c>> \in G.nodes \X G.nodes :
               \E b \in G.nodes : <<a, b>> \in R /\ <<b, c>> \in R}
RECURSIVE Closure(_, _, _)
Closure(G, R, k) == IF k = 0 THEN R ELSE Closure(G, Linked(G, R), k - 1)
SameComponent(G) ==
    Closure(G, {<<a, a>> : a \in G.nodes} \cup G.edges
               \cup {<<e[2], e[1]>> : e \in G.edges}, Cardinality(G.nodes))
Components(G) ==
    {{b \in G.nodes : <<a, b>> \in SameComponent(G)} : a \in G.nodes}

\* C11: the stats analyze_connectivity computes have number_of_components
\* equal to the number of components of the graph's undirected projection,
\* and is_connected true exactly when that number is 1; in particular a
\* graph of two disjoint components gives is_connected false and 2.
C11_ConnectedIffOneComponent ==
    call.op = "analyze_connectivity" =>
        /\ call.ret.number_of_components = Cardinality(Components(road_graph))
        /\ call.ret.is_connected <=> (call.ret.number_of_components = 1)
        /\ Cardinality(Components(road_graph)) = 2
           => (~call.ret.is_connected /\ call.ret.number_of_components = 2)

\* The stats of a graph of two disjoint components, one of them two nodes
\* joined by a single one-way edge.
C11_Witness ==
    /\ call.op = "analyze_connectivity"
    /\ Cardinality(Components(road_graph)) = 2
    /\ Cardinality(road_graph.nodes) = 3 /\ Cardinality(road_graph.edges) = 1
    /\ ~call.ret.is_connected /\ call.ret.number_of_components = 2

\* ---------------------------------------------------------- the road styles
\* The 'highway' attribute of an edge row: absent, a string, or a list of
\* strings (a segment simplified from several ways).  Tagged, so that a
\* string and a list can be told apart as isinstance(x, list) does.
MaxTags == 2

Recognised ==
    {"motorway", "trunk", "primary", "secondary", "tertiary", "residential"}
Tags == Recognised \cup {"default", "service", "unclassified"}
Str(tag) == <<"str", tag>>
List(seq) == <<"list", seq>>
Missing == <<"missing">>
TagLists == UNION {[1..n -> Tags] : n \in 0..MaxTags}
Classifications == {Missing} \cup {Str(x) : x \in Tags} \cup {List(q) : q \in TagLists}

\* The styles table; weight and opacity in tenths.
Style(color, weight, opacity) ==
    [color |-> color, weight |-> weight, opacity |-> opacity]
styles ==
    "motorway" :> Style("#FF0000", 40, 8) @@
    "trunk" :> Style("#FF4500", 30, 8) @@
    "primary" :> Style("#FFA500", 25, 7) @@
    "secondary" :> Style("#FFFF00", 20, 6) @@
    "tertiary" :> Style("#90EE90", 15, 5) @@
    "residential" :> Style("#87CEEB", 10, 4) @@
    "default" :> Style("#808080", 10, 3)

\* Mutant: of a list, the last tag is taken.
first_or_default_last_tag(highway_type) ==
    IF highway_type[1] = "list"
    THEN IF Len(highway_type[2]) > 0
         THEN Str(highway_type[2][Len(highway_type[2])])
         ELSE Str("default")
    ELSE highway_type

\* if isinstance(highway_type, list):
\*     highway_type = highway_type[0] if highway_type else 'default'
first_or_default(highway_type) ==
    IF highway_type[1] = "list"
    THEN IF Len(highway_type[2]) > 0 THEN Str(highway_type[2][1])
         ELSE Str("default")
    ELSE highway_type

get_road_style(highway_type) ==
    LET h == first_or_default(highway_type)
    IN  \* styles.get(highway_type, styles['default'])
        IF h[2] \in DOMAIN styles THEN styles[h[2]] ELSE styles["default"]

\* row.get('highway', 'default')
row_highway(row) == IF row = Missing THEN Str("default") ELSE row

\* The body of the loop over the edges, for one row: the group the edge is
\* put in and the style it is drawn with.
edge_layer(row) ==
    LET highway_type == first_or_default(row_highway(row))
    IN  [group |-> highway_type[2], style |-> get_road_style(highway_type)]

\* The analyzer holds a road graph of one edge, given by its 'highway'.
InitStyle ==
    /\ road_graph \in [highway : Classifications]
    /\ disk = [f \in CacheFiles |-> Absent]
    /\ districts_gdf = None
    /\ pc = "idle"
    /\ args = NoArgs
    /\ frame = NoFrame
    /\ ran = <<>>
    /\ call = NoCall("-")

\* create_interactive_map up to the drawing of that edge.
DrawEdge ==
    /\ pc = "idle"
    /\ call' = [NoCall("create_interactive_map") EXCEPT
                   !.ret = edge_layer(road_graph.highway)]
    /\ pc' = "returned"
    /\ UNCHANGED <<disk, road_graph, districts_gdf, args, frame, ran>>

\* get_road_style called on the attribute as it is.
StyleOf ==
    /\ pc = "idle"
    /\ call' = [NoCall("get_road_style") EXCEPT
                   !.ret = [group |-> "-",
                            style |-> get_road_style(row_highway(road_graph.highway))]]
    /\ pc' = "returned"
    /\ UNCHANGED <<disk, road_graph, districts_gdf, args, frame, ran>>

NextStyle == DrawEdge \/ StyleOf

SpecStyle == InitStyle /\ [][NextStyle]_vars

\* C12: the style an edge is drawn with is the fixed style of its tag when
\* the tag (the first element, for a non-empty list) is one of the six
\* recognised ones, and the default style for any other tag, a missing tag
\* or an empty list; the six styles and the default are seven different
\* styles.
Classified(h) ==
    IF h = Missing THEN "none"
    ELSE IF h[1] = "list" THEN (IF h[2] = <<>> THEN "none" ELSE Head(h[2]))
    ELSE h[2]

ReachedReport == IsPipelineRun /\ Len(ran) >= 3 /\ ran[3][1] = "generate_report"

C13_AsStated ==
    ReachedReport /\ ran[3][2] \in Stats => ran[3][2][2] = road_graph

\* ------------------------------------------------ the failed road download
\* C14 as stated: a call of download_road_network that returns False, made
\* directly or by run_complete_analysis, leaves road_graph as it was before
\* the call.
C14_AsStated ==
    [][ (/\ pc \in {"idle", "rca_network"}
         /\ IsNetworkCall(call')
         /\ call'.ret = False)
        => road_graph' = road_graph ]_vars

====
